---- MODULE Spec2Model ----
(***************************************************************************)
(* Rail Announcements Generator: the vox playback engine (VoxEngine) as a  *)
(* state machine.  The engine runs on one event loop, so every public      *)
(* call, timer callback and audio event is one atomic action.              *)
(***************************************************************************)
EXTENDS Integers, Sequences, FiniteSets, TLC

\* ------------------------------------------------------------------ bounds
\* Most clips in a short key sequence spoken.
MaxShort == 1
\* Length of the long key sequence spoken, which exceeds the request window.
MaxLong == 12

\* ------------------------------------------------------- program constants
\* voxEngine.ts:134  `this.pendingReqs.length < 10`
MaxPending == 10

\* ------------------------------------------------------------- vox keys
\* A segment reference is a string (a clip name, here a clip number); a
\* silence is a number of seconds (here in whole units, 0 included).
Segment(ref) == [type |-> "string", val |-> ref]
Silence(dur) == [type |-> "number", val |-> dur]

IsSilence(key) == key.type = "number"

\* JavaScript truthiness of a key, as tested by `this.currentIds[0] &&`:
\* the number 0 is falsy, every non-empty string and other number is truthy.
Truthy(key) == ~(key.type = "number" /\ key.val = 0)

\* Optional values: undefined is the empty tuple.
None == <<>>
Some(x) == <<x>>
Get(opt) == opt[1]

\* ------------------------------------------------------------ environment
\* Voices the caller can pass; the string "undefined" is a cleared field.
VoiceURIs == {"full", "patchy"}

\* Clips that the voice's directory lacks: fetching them fails.
Missing(voiceURI) == IF voiceURI = "patchy" THEN {2, 3} ELSE {}

\* voxEngine.ts:137  path = `${voiceURI}/${id}.mp3`
Path(voiceURI, id) == [voiceURI |-> voiceURI, id |-> id, ext |-> "mp3"]

\* Whether fetching and decoding the file at path yields a buffer.  No file
\* is named after a number, so the path of a silence key never decodes.
Decodes(path) == path.id.type = "string" /\ path.id.val \notin Missing(path.voiceURI)

\* Key sequences passed to speak(): the empty sequence, one key of each kind
\* (a clip, the silence of 0 seconds, a longer silence), a clip up to
\* MaxShort times, and the sequence of the distinct clips 1..MaxLong, which
\* is longer than the request window, plain or with a silence as its second
\* key.
ShortKeys == {Segment(2), Silence(0), Silence(1)}

ShortIds ==
    {<<>>} \cup {<<key>> : key \in ShortKeys}
        \cup {[i \in 1..n |-> Segment(2)] : n \in 1..MaxShort}

LongIds(gap) ==
    [i \in 1..MaxLong |-> IF gap /\ i = 2 THEN Silence(1) ELSE Segment(i)]

\* The arguments of a speak() call: a short sequence in either voice, the
\* plain long one in the full voice, the long one with a silence in the
\* voice that lacks clips.
Announcements ==
    {[ids |-> ids, voice |-> v] : ids \in ShortIds, v \in VoiceURIs}
        \cup {[ids |-> LongIds(FALSE), voice |-> "full"],
              [ids |-> LongIds(TRUE), voice |-> "patchy"]}

VARIABLES
    \* VoxEngine fields (voxEngine.ts:12-24)
    isSpeaking, pumpTimer, pendingReqs, currentIds, currentVoice,
    currentSettings, currentBufNode,
    \* the event loop and audio graph around the engine
    timers,     \* ids of the armed timeouts
    sounding,   \* started buffer source nodes that have not ended
    halted,     \* stopped nodes whose ended event is still to be dispatched
    detached,   \* requests dropped by the engine whose fetch is outstanding
    \* history
    spoken,     \* the ids and voice of the latest speak(), as passed
    issued,     \* requests created since the latest speak(), in order
    played,     \* requests whose buffer was started since the latest speak()
    skipped,    \* requests dequeued without a buffer since the latest speak()
    stoppedBy,  \* call site of the latest stop(): "stop", "speak", "pump"
    \* Resolver fields (part_001:45-49) and what the resolver reads
    phrase,     \* the document tree under the resolver's root element
    ragState,   \* RAG.state, the values the phrase was generated from
    flattened,  \* Resolver.flattened
    resolved,   \* Resolver.resolved
    results,    \* history: what toVox() returned, since the tree last changed
    pushed      \* history: the keys resolve() returned for each flattened node
                \* in the last toVox() call

engine == <<isSpeaking, pumpTimer, pendingReqs, currentIds, currentVoice,
            currentSettings, currentBufNode>>

vars == <<isSpeaking, pumpTimer, pendingReqs, currentIds, currentVoice,
          currentSettings, currentBufNode, timers, sounding, halted,
          detached, spoken, issued, played, skipped, stoppedBy,
          phrase, ragState, flattened, resolved, results, pushed>>

resolver == <<phrase, ragState, flattened, resolved, results, pushed>>

\* The state as one record, so that a method is a function from the state
\* before the call to the state after it.
State ==
    [isSpeaking |-> isSpeaking, pumpTimer |-> pumpTimer,
     pendingReqs |-> pendingReqs, currentIds |-> currentIds,
     currentVoice |-> currentVoice, currentSettings |-> currentSettings,
     currentBufNode |-> currentBufNode, timers |-> timers,
     sounding |-> sounding, halted |-> halted, detached |-> detached,
     spoken |-> spoken, issued |-> issued, played |-> played,
     skipped |-> skipped, stoppedBy |-> stoppedBy]

Becomes(s) ==
    /\ isSpeaking' = s.isSpeaking
    /\ pumpTimer' = s.pumpTimer
    /\ pendingReqs' = s.pendingReqs
    /\ currentIds' = s.currentIds
    /\ currentVoice' = s.currentVoice
    /\ currentSettings' = s.currentSettings
    /\ currentBufNode' = s.currentBufNode
    /\ timers' = s.timers
    /\ sounding' = s.sounding
    /\ halted' = s.halted
    /\ detached' = s.detached
    /\ spoken' = s.spoken
    /\ issued' = s.issued
    /\ played' = s.played
    /\ skipped' = s.skipped
    /\ stoppedBy' = s.stoppedBy
    /\ UNCHANGED resolver

\* voxEngine.ts:12-24, the field initialisers.
EngineInit ==
    /\ isSpeaking = FALSE
    /\ pumpTimer = 0
    /\ pendingReqs = <<>>
    /\ currentIds = None
    /\ currentVoice = "undefined"
    /\ currentSettings = "undefined"
    /\ currentBufNode = None
    /\ timers = {}
    /\ sounding = {}
    /\ halted = {}
    /\ detached = {}
    /\ spoken = None
    /\ issued = <<>>
    /\ played = <<>>
    /\ skipped = <<>>
    /\ stoppedBy = "none"

\* part_001:51-56, the constructor, over an empty phrase.
Init ==
    /\ EngineInit
    /\ phrase = <<>>
    /\ ragState = <<>>
    /\ flattened = <<>>
    /\ resolved = <<>>
    /\ results = <<>>
    /\ pushed = <<>>

\* ------------------------------------------------------------ VoxRequest
\* new VoxRequest(path): the fetch starts at once; pos is the index of the
\* key in the spoken sequence (history).
VoxRequest(path, pos) ==
    [path |-> path, pos |-> pos, isDone |-> FALSE, buffer |-> FALSE,
     cancelled |-> FALSE]

\* r.cancel(): effective before completion, a no-op after it.
cancel(r) == IF r.isDone THEN r ELSE [r EXCEPT !.cancelled = TRUE]

\* The fetch of r resolves: completion flag set, a buffer on success only,
\* and nothing delivered when the request was cancelled.
fulfil(r) ==
    IF r.cancelled THEN r
    ELSE [r EXCEPT !.isDone = TRUE, !.buffer = Decodes(r.path)]

\* A request the engine no longer references, up to its lifecycle fields.
Detach(r) == [isDone |-> r.isDone, cancelled |-> r.cancelled]

\* ------------------------------------------------------------ event loop
\* setTimeout returns a handle unequal to every armed one and to the one
\* the engine holds; the engine holds only the latest handle, so older
\* handles whose timers have fired or been cleared can be reused.
NewTimer(armed, held) ==
    CHOOSE t \in 1..(Cardinality(armed) + 2) :
        /\ t \notin armed \cup {held}
        /\ \A u \in 1..(t - 1) : u \in armed \cup {held}

\* ------------------------------------------------------------- VoxEngine
\* stop() without its clearTimeout call.
stopKeepsTimer(s, by) ==
    LET inflight == {i \in 1..Len(s.pendingReqs) : ~s.pendingReqs[i].isDone}
        node == s.currentBufNode
    IN  [s EXCEPT
            !.isSpeaking = FALSE,
            !.detached = @ \cup {Detach(cancel(s.pendingReqs[i])) : i \in inflight},
            !.sounding = IF node = None THEN @ ELSE @ \ {Get(node)},
            !.halted = IF node = None THEN @ ELSE @ \cup {[onended |-> FALSE]},
            !.currentBufNode = None,
            !.currentIds = None,
            !.currentVoice = "undefined",
            !.currentSettings = "undefined",
            !.pendingReqs = <<>>,
            !.stoppedBy = by]

\* stop() dropping the pending requests without cancelling them.
stopWithoutCancel(s, by) ==
    LET inflight == {i \in 1..Len(s.pendingReqs) : ~s.pendingReqs[i].isDone}
        node == s.currentBufNode
    IN  [s EXCEPT
            !.timers = @ \ {s.pumpTimer},
            !.isSpeaking = FALSE,
            !.detached = @ \cup {Detach(s.pendingReqs[i]) : i \in inflight},
            !.sounding = IF node = None THEN @ ELSE @ \ {Get(node)},
            !.halted = IF node = None THEN @ ELSE @ \cup {[onended |-> FALSE]},
            !.currentBufNode = None,
            !.currentIds = None,
            !.currentVoice = "undefined",
            !.currentSettings = "undefined",
            !.pendingReqs = <<>>,
            !.stoppedBy = by]

\* stop() without its final `this.pendingReqs = []`.
stopKeepsQueue(s, by) ==
    LET node == s.currentBufNode
    IN  [s EXCEPT
            !.timers = @ \ {s.pumpTimer},
            !.isSpeaking = FALSE,
            !.pendingReqs = [i \in 1..Len(@) |-> cancel(@[i])],
            !.sounding = IF node = None THEN @ ELSE @ \ {Get(node)},
            !.halted = IF node = None THEN @ ELSE @ \cup {[onended |-> FALSE]},
            !.currentBufNode = None,
            !.currentIds = None,
            !.currentVoice = "undefined",
            !.currentSettings = "undefined",
            !.stoppedBy = by]

\* voxEngine.ts:91-116
stop(s, by) ==
    LET inflight == {i \in 1..Len(s.pendingReqs) : ~s.pendingReqs[i].isDone}
        node == s.currentBufNode
    IN  [s EXCEPT
            !.timers = @ \ {s.pumpTimer},
            !.isSpeaking = FALSE,
            !.detached = @ \cup {Detach(cancel(s.pendingReqs[i])) : i \in inflight},
            !.sounding = IF node = None THEN @ ELSE @ \ {Get(node)},
            !.halted = IF node = None THEN @ ELSE @ \cup {[onended |-> FALSE]},
            !.currentBufNode = None,
            !.currentIds = None,
            !.currentVoice = "undefined",
            !.currentSettings = "undefined",
            !.pendingReqs = <<>>,
            !.stoppedBy = by]

\* The early return without its test of the current buffer node.
PlayNextReturnsIgnoringNode(s) ==
    \/ s.pendingReqs = <<>>
    \/ ~Head(s.pendingReqs).isDone

\* voxEngine.ts:157, the early return of playNext
PlayNextReturns(s) ==
    \/ s.pendingReqs = <<>>
    \/ ~Head(s.pendingReqs).isDone
    \/ s.currentBufNode # None

\* playNext taking the first completed request of the queue, wherever it is,
\* instead of the head.
RemoveAt(seq, i) == SubSeq(seq, 1, i - 1) \o SubSeq(seq, i + 1, Len(seq))

RECURSIVE playNextFirstDone(_)
playNextFirstDone(s) ==
    LET done == {i \in 1..Len(s.pendingReqs) : s.pendingReqs[i].isDone}
    IN  IF done = {} \/ s.currentBufNode # None THEN s
        ELSE LET i == CHOOSE k \in done : \A m \in done : k <= m
                 req == s.pendingReqs[i]
                 s1 == [s EXCEPT !.pendingReqs = RemoveAt(@, i)]
                 node == [path |-> req.path, pos |-> req.pos, onended |-> TRUE]
             IN  IF ~req.buffer
                 THEN playNextFirstDone([s1 EXCEPT !.skipped = Append(@, req)])
                 ELSE [s1 EXCEPT !.currentBufNode = Some(node),
                                 !.sounding = @ \cup {node},
                                 !.played = Append(@, req)]

\* playNext returning after it has dropped a request without buffer,
\* instead of going on to the next one.
playNextStopsAtFailure(s) ==
    IF PlayNextReturns(s) THEN s
    ELSE LET req == Head(s.pendingReqs)
             s1 == [s EXCEPT !.pendingReqs = Tail(@)]
             node == [path |-> req.path, pos |-> req.pos, onended |-> TRUE]
         IN  IF ~req.buffer
             THEN [s1 EXCEPT !.skipped = Append(@, req)]
             ELSE [s1 EXCEPT !.currentBufNode = Some(node),
                             !.sounding = @ \cup {node},
                             !.played = Append(@, req)]

\* voxEngine.ts:154-185; the node plays req.buffer and carries the handler.
RECURSIVE playNext(_)
playNext(s) ==
    IF PlayNextReturns(s) THEN s
    ELSE LET req == Head(s.pendingReqs)
             s1 == [s EXCEPT !.pendingReqs = Tail(@)]
             node == [path |-> req.path, pos |-> req.pos, onended |-> TRUE]
         IN  IF ~req.buffer
             THEN playNext([s1 EXCEPT !.skipped = Append(@, req)])
             ELSE [s1 EXCEPT !.currentBufNode = Some(node),
                             !.sounding = @ \cup {node},
                             !.played = Append(@, req)]

\* The handler stopping the engine itself once nothing is left to play.
onendedStopsWhenDrained(s) ==
    IF ~s.isSpeaking THEN s
    ELSE LET s1 == playNext([s EXCEPT !.currentBufNode = None])
         IN  IF /\ s1.currentBufNode = None /\ s1.pendingReqs = <<>>
                /\ Get(s1.currentIds) = <<>>
             THEN stop(s1, "ended") ELSE s1

\* The handler clearing the current node and leaving the next start to the
\* pump.
onendedWithoutPlayNext(s) ==
    IF ~s.isSpeaking THEN s
    ELSE [s EXCEPT !.currentBufNode = None]

\* voxEngine.ts:177-184, the onended handler of a node made by playNext
onended(s) ==
    IF ~s.isSpeaking THEN s
    ELSE playNext([s EXCEPT !.currentBufNode = None])

\* The loop condition with the window test off by one.
PumpCanIssueOffByOne(s) ==
    /\ Get(s.currentIds) # <<>>
    /\ Truthy(Head(Get(s.currentIds)))
    /\ Len(s.pendingReqs) <= MaxPending

\* voxEngine.ts:134, the loop condition
PumpCanIssue(s) ==
    /\ Get(s.currentIds) # <<>>
    /\ Truthy(Head(Get(s.currentIds)))
    /\ Len(s.pendingReqs) < MaxPending

\* The refill loop reading the first key without shifting it off the array.
RECURSIVE fillWithoutShift(_)
fillWithoutShift(s) ==
    IF ~PumpCanIssue(s) THEN s
    ELSE LET ids == Get(s.currentIds)
             pos == Len(Get(s.spoken).ids) - Len(ids) + 1
             req == VoxRequest(Path(s.currentVoice, Head(ids)), pos)
         IN  fillWithoutShift([s EXCEPT !.pendingReqs = Append(@, req),
                                        !.issued = Append(@, req)])

\* voxEngine.ts:134-140, the refill loop
RECURSIVE fill(_)
fill(s) ==
    IF ~PumpCanIssue(s) THEN s
    ELSE LET ids == Get(s.currentIds)
             pos == Len(Get(s.spoken).ids) - Len(ids) + 1
             req == VoxRequest(Path(s.currentVoice, Head(ids)), pos)
         IN  fill([s EXCEPT !.currentIds = Some(Tail(ids)),
                            !.pendingReqs = Append(@, req),
                            !.issued = Append(@, req)])

\* voxEngine.ts:143
PumpShouldStop(s) ==
    Len(Get(s.currentIds)) <= 0 /\ s.currentBufNode = None

\* voxEngine.ts:122-147
pump(s) ==
    IF ~s.isSpeaking \/ s.currentIds = None \/ s.currentVoice = "undefined"
    THEN s
    ELSE LET s2 == fill(playNext(s))
             t == NewTimer(s2.timers, s2.pumpTimer)
         IN  IF PumpShouldStop(s2)
             THEN stop(s2, "pump")
             ELSE [s2 EXCEPT !.pumpTimer = t, !.timers = @ \cup {t}]

\* speak() without the stop() of a running announcement.
speakWithoutStop(s, ids, voice, settings) ==
    pump([s EXCEPT !.isSpeaking = TRUE,
                   !.currentIds = Some(ids),
                   !.currentVoice = voice,
                   !.currentSettings = settings,
                   !.spoken = Some([ids |-> ids, voice |-> voice]),
                   !.issued = <<>>,
                   !.played = <<>>,
                   !.skipped = <<>>,
                   !.stoppedBy = "none"])

\* voxEngine.ts:74-88
speak(s, ids, voice, settings) ==
    LET s1 == IF s.isSpeaking THEN stop(s, "speak")
              ELSE [s EXCEPT !.stoppedBy = "none"]
    IN  pump([s1 EXCEPT !.isSpeaking = TRUE,
                        !.currentIds = Some(ids),
                        !.currentVoice = voice,
                        !.currentSettings = settings,
                        !.spoken = Some([ids |-> ids, voice |-> voice]),
                        !.issued = <<>>,
                        !.played = <<>>,
                        !.skipped = <<>>])

\* ---------------------------------------------------------------- actions
\* A caller invokes speak().
Speak ==
    \E a \in Announcements :
        Becomes(speak(State, a.ids, a.voice, "settings"))

\* A caller invokes stop().
Stop == Becomes(stop(State, "stop"))

\* An armed timeout fires and runs pump().
PumpTimerFires ==
    \E t \in timers :
        Becomes(pump([State EXCEPT !.timers = @ \ {t}]))

\* The fetch of a pending request resolves.
RequestCompletes ==
    \E i \in 1..Len(pendingReqs) :
        /\ ~pendingReqs[i].isDone
        /\ pendingReqs' = [pendingReqs EXCEPT ![i] = fulfil(@)]
        /\ UNCHANGED <<isSpeaking, pumpTimer, currentIds, currentVoice,
                       currentSettings, currentBufNode, timers, sounding,
                       halted, detached, spoken, issued, played, skipped,
                       stoppedBy, resolver>>

\* The fetch of a request the engine has dropped resolves.
DetachedCompletes ==
    \E r \in detached :
        /\ detached' = detached \ {r}
        /\ UNCHANGED <<isSpeaking, pumpTimer, pendingReqs, currentIds,
                       currentVoice, currentSettings, currentBufNode, timers,
                       sounding, halted, spoken, issued, played, skipped,
                       stoppedBy, resolver>>

\* A sounding node reaches the end of its buffer: its ended event runs the
\* handler it carries.
NodeEnded ==
    \E n \in sounding :
        LET s == [State EXCEPT !.sounding = @ \ {n}]
        IN  Becomes(IF n.onended THEN onended(s) ELSE s)

\* The ended event of a node that stop() halted is dispatched.
HaltedNodeEnded ==
    \E n \in halted :
        LET s == [State EXCEPT !.halted = @ \ {n}]
        IN  Becomes(IF n.onended THEN onended(s) ELSE s)

Next ==
    \/ Speak
    \/ Stop
    \/ PumpTimerFires
    \/ RequestCompletes
    \/ DetachedCompletes
    \/ NodeEnded
    \/ HaltedNodeEnded

Spec == Init /\ [][Next]_vars


\* ------------------------------------------------- one announcement alone
\* speak() is called once and nothing else is called from outside: the
\* engine is left to its timer, its requests and its audio events.
SpeakOnce == spoken = None /\ Speak

NextOnce ==
    \/ SpeakOnce
    \/ PumpTimerFires
    \/ RequestCompletes
    \/ DetachedCompletes
    \/ NodeEnded

SpecOnce == Init /\ [][NextOnce]_vars

\* The browser fires every armed timeout, settles every fetch and ends
\* every started buffer.
FairOnce ==
    /\ SpecOnce
    /\ WF_vars(PumpTimerFires)
    /\ WF_vars(RequestCompletes)
    /\ WF_vars(DetachedCompletes)
    /\ WF_vars(NodeEnded)

\* ------------------------------------------------------------- properties
Positions(reqs) == {reqs[i].pos : i \in 1..Len(reqs)}

\* Whether r is the request that the arguments of the latest speak()
\* prescribe for the key at r.pos.
Prescribed(r) ==
    /\ r.pos \in 1..Len(Get(spoken).ids)
    /\ r.path = Path(Get(spoken).voice, Get(spoken).ids[r.pos])

\* C1: segments start playing in the order of their keys in the spoken
\* sequence, whatever the order in which the assets complete: the played
\* positions increase, each played asset is the one of its key, and every
\* asset issued before a played one has itself been played or skipped.
PlayedInKeyOrder ==
    /\ \A i, j \in 1..Len(played) : i < j => played[i].pos < played[j].pos
    /\ \A i \in 1..Len(played) : Prescribed(played[i])
    /\ \A i \in 1..Len(played), j \in 1..Len(issued) :
          issued[j].pos < played[i].pos
              => issued[j].pos \in Positions(played) \cup Positions(skipped)

\* Two segments have played, and a completed asset is waiting unplayed
\* behind a head that is still in flight.
PlayedInKeyOrderWitness ==
    /\ isSpeaking
    /\ Len(played) >= 2
    /\ Len(pendingReqs) >= 2
    /\ ~pendingReqs[1].isDone
    /\ pendingReqs[2].isDone /\ pendingReqs[2].buffer
    /\ currentBufNode = None

\* C2: the pending queue never holds more than 10 requests.
PendingAtMostTen == Len(pendingReqs) <= 10

\* The window is full while keys remain unconsumed.
PendingAtMostTenWitness ==
    /\ isSpeaking
    /\ Len(pendingReqs) = 10
    /\ Get(currentIds) # <<>>


\* C3: once stop() has been called, no later event (a dropped request's
\* fetch resolving, the halted node's ended event, a timer armed earlier)
\* changes an engine field, starts a node, issues a request, or arms or
\* fires a timer, until speak() is called again.
QuietAfterStop ==
    [][(stoppedBy = "stop" /\ stoppedBy' = "stop")
         => UNCHANGED <<engine, timers, sounding, issued, played, skipped>>]_vars

\* stop() came while a node was playing and fetches were outstanding, and
\* one of the two later events has since been delivered.
QuietAfterStopWitness ==
    /\ stoppedBy = "stop"
    /\ played # <<>>
    /\ Len(played) + Len(skipped) < Len(issued)
    /\ (halted = {}) # (detached = {})

\* C4: no request is ever issued for a silence key.
NoRequestForSilence ==
    \A i \in 1..Len(issued) : ~IsSilence(issued[i].path.id)

\* The keys of the latest speak() whose file decodes.
Playable ==
    {pos \in 1..Len(Get(spoken).ids) :
        Decodes(Path(Get(spoken).voice, Get(spoken).ids[pos]))}

\* C5: left alone after speak(), the engine plays every segment whose
\* asset decodes: when it has gone back to idle, where nothing can play
\* any more, each of them has been played.
EveryDecodedSegmentPlayed ==
    (spoken # None /\ ~isSpeaking) => Playable \subseteq Positions(played)

\* C6: when the pump itself has stopped the engine, every key had been
\* consumed and every request issued had been played or skipped: none was
\* still pending and thrown away.
PumpStopsOnlyWhenDrained ==
    stoppedBy = "pump" =>
        /\ Len(issued) = Len(Get(spoken).ids)
        /\ Positions(issued) \subseteq Positions(played) \cup Positions(skipped)
        /\ sounding = {}

\* C7: after speak(), left alone and with every fetch settling and every
\* buffer ending, the engine eventually is idle with no timer armed.
EventuallyIdle ==
    (spoken # None) ~> (~isSpeaking /\ timers = {})

\* C8: stop() leaves the engine idle: no timer armed, the queue empty and
\* each request that was in flight cancelled, the node that was playing
\* halted with its handler detached, ids, voice and settings cleared; on
\* an idle engine it changes nothing.
StopResetsEngine ==
    [][Stop =>
        /\ ~isSpeaking'
        /\ timers' = {}
        /\ pendingReqs' = <<>>
        /\ \A r \in detached' : r.cancelled
        /\ (\E i \in 1..Len(pendingReqs) : ~pendingReqs[i].isDone) => detached' # {}
        /\ currentBufNode' = None
        /\ sounding' = {}
        /\ \A n \in halted' : ~n.onended
        /\ currentBufNode # None => halted' # {}
        /\ currentIds' = None
        /\ currentVoice' = "undefined"
        /\ currentSettings' = "undefined"
        /\ ~isSpeaking => UNCHANGED <<engine, timers, sounding, halted, detached>>
      ]_vars

\* The engine has been stopped from outside while a node was playing,
\* requests were in flight and keys were left to consume.
StopResetsEngineWitness ==
    /\ stoppedBy = "stop"
    /\ halted # {}
    /\ detached # {}
    /\ Len(issued) < Len(Get(spoken).ids)

\* C9: while an announcement runs, whether or not it replaced a running
\* one, every pending request, every request issued and every sounding node
\* is the one that the latest speak() prescribes for its key, requests are
\* issued from the first key on, and what an earlier announcement left
\* behind is cancelled requests and halted nodes without handler.
OnlyLatestAnnouncement ==
    isSpeaking =>
        /\ \A i \in 1..Len(pendingReqs) : Prescribed(pendingReqs[i])
        /\ \A i \in 1..Len(issued) : issued[i].pos = i /\ Prescribed(issued[i])
        /\ \A i \in 1..Len(played) : Prescribed(played[i])
        /\ \A n \in sounding : Prescribed(n) /\ currentBufNode = Some(n)
        /\ \A r \in detached : r.cancelled
        /\ \A n \in halted : ~n.onended

\* speak() has replaced a running announcement whose node was playing and
\* whose requests were in flight, and the new one is playing.
OnlyLatestAnnouncementWitness ==
    /\ isSpeaking
    /\ stoppedBy = "speak"
    /\ halted # {}
    /\ detached # {}
    /\ currentBufNode # None

\* C10: at most one started node has not ended, and it is the current
\* one; a pump tick that finds a current node leaves it, the play history
\* and the requests already queued as they are.
OneNodeAtATime ==
    /\ [](sounding = IF currentBufNode = None THEN {} ELSE {Get(currentBufNode)})
    /\ [][(currentBufNode # None /\ PumpTimerFires)
            => /\ currentBufNode' = currentBufNode
               /\ sounding' = sounding
               /\ played' = played /\ skipped' = skipped
               /\ Len(pendingReqs') >= Len(pendingReqs)
               /\ SubSeq(pendingReqs', 1, Len(pendingReqs)) = pendingReqs]_vars

\* A node is playing while the head of the queue is ready to play.
OneNodeAtATimeWitness ==
    /\ currentBufNode # None
    /\ pendingReqs # <<>>
    /\ Head(pendingReqs).isDone /\ Head(pendingReqs).buffer
    /\ timers # {}


\* The segment references among keys, in order.
SegmentKeys(keys) == SelectSeq(keys, LAMBDA k : ~IsSilence(k))

\* C11: the requests issued are, in order, those of a prefix of the
\* segment references of the spoken sequence, each with the path
\* voiceURI/key.mp3.
IssuedAreSegmentPrefix ==
    spoken # None =>
        LET refs == SegmentKeys(Get(spoken).ids)
        IN  /\ Len(issued) <= Len(refs)
            /\ \A i \in 1..Len(issued) :
                  issued[i].path = Path(Get(spoken).voice, refs[i])

\* Whether a silence of positive duration lies strictly between the
\* positions p and q of the spoken sequence.
SilenceBetween(p, q) ==
    \E k \in (p + 1)..(q - 1) :
        IsSilence(Get(spoken).ids[k]) /\ Get(spoken).ids[k].val > 0

\* C12: a segment that follows a silence is delayed: it never starts in
\* the very step in which the segment before the silence ends.
SilenceDelaysSegment ==
    [][spoken' = spoken =>
        ~ \E n \in sounding, m \in sounding' :
            /\ n \notin sounding'
            /\ m \notin sounding
            /\ SilenceBetween(n.pos, m.pos)]_vars

FailedHeadSkipped ==
    /\ [](/\ \A i \in 1..Len(played) : played[i].buffer
          /\ \A i \in 1..Len(skipped) : skipped[i].isDone /\ ~skipped[i].buffer
          /\ \A n \in sounding : n.pos \in Positions(played))
    /\ [][(/\ isSpeaking' /\ currentBufNode' = None
            /\ pendingReqs' # <<>> /\ Head(pendingReqs').isDone)
            => UNCHANGED <<isSpeaking, timers, sounding, spoken, issued,
                           played, skipped>>]_vars

\* The node playing is that of the key right after one whose request was
\* dropped without buffer.
FailedHeadSkippedWitness ==
    /\ currentBufNode # None
    /\ Get(currentBufNode).pos - 1 \in Positions(skipped)
    /\ played # <<>>

\* C20: on an engine that is not speaking, pump() and playNext() change
\* nothing.
AdvanceIsNoOpWhenIdle ==
    ~isSpeaking => pump(State) = State /\ playNext(State) = State

\* The engine has gone idle on its own after having played, with fetches
\* it cancelled still outstanding.
AdvanceIsNoOpWhenIdleWitness ==
    /\ ~isSpeaking
    /\ stoppedBy = "pump"
    /\ played # <<>>
    /\ detached # {}


(***************************************************************************)
(* The Resolver (part_001): a phrase, which is a tree of DOM nodes, is     *)
(* flattened and resolved into vox keys.                                   *)
(***************************************************************************)
\* ------------------------------------------------------------------- text
\* A string of the document is the sequence of its characters: a blank, a
\* sentence terminator, a comma, a word character.
Chars == {" ", ".", ",", "a"}

RECURSIVE TrimStart(_)
TrimStart(t) == IF t # <<>> /\ Head(t) = " " THEN TrimStart(Tail(t)) ELSE t

RECURSIVE TrimEnd(_)
TrimEnd(t) ==
    IF t # <<>> /\ t[Len(t)] = " " THEN TrimEnd(SubSeq(t, 1, Len(t) - 1)) ELSE t

\* String.prototype.trim
trim(t) == TrimEnd(TrimStart(t))

\* Strings.clean: the text trimmed, runs of blanks made one blank, and a
\* blank before a terminator or comma removed.
RECURSIVE Squeeze(_)
Squeeze(t) ==
    IF Len(t) < 2 THEN t
    ELSE IF t[1] = " " /\ t[2] \in {" ", ".", ","} THEN Squeeze(Tail(t))
    ELSE <<t[1]>> \o Squeeze(Tail(t))

clean(t) == Squeeze(trim(t))

\* text.startsWith('.') and text.endsWith('.')
startsWith(t, c) == t # <<>> /\ t[1] = c
endsWith(t, c) == t # <<>> /\ t[Len(t)] = c

\* text.match(/[a-z0-9]/i)
MatchesWord(t) == \E i \in 1..Len(t) : t[i] = "a"

\* A template string is the sequence of the pieces it is put together from,
\* its dots included; an empty piece adds nothing to the string.
Str(pieces) == SelectSeq(pieces, LAMBDA x : x # "")

\* -------------------------------------------------------------- the tree
\* A node of the document: its kind, its own characters when it is a text
\* node, and for an element the collapsed attribute and the dataset, where
\* "" is a key that is not set.  Nodes stand in document order; up tells how
\* many places before the node its parent stands, 0 for a child of the root.
Node(nodeType, text, type) ==
    [nodeType |-> nodeType, up |-> 0, text |-> text, collapsed |-> FALSE,
     type |-> type, context |-> "", ref |-> "", idx |-> "", chance |-> "",
     singular |-> "", plural |-> "", key |-> ""]

TextNode(text) == Node("text", text, "")
Element(type) == Node("element", <<>>, type)

\* The element the resolver is constructed over: the root phraseset.
Root == [Element("phraseset") EXCEPT !.ref = "root", !.idx = "0"]

NodeAt(tree, i) == IF i = 0 THEN Root ELSE tree[i]

\* node.parentElement, as an index; 0 is the root.
parentElement(tree, i) == IF tree[i].up = 0 THEN 0 ELSE i - tree[i].up

RECURSIVE Ancestors(_, _)
Ancestors(tree, i) ==
    LET p == parentElement(tree, i)
    IN  IF p = 0 THEN {} ELSE {p} \cup Ancestors(tree, p)

RECURSIVE TextFrom(_, _, _)
TextFrom(tree, i, j) ==
    IF j > Len(tree) THEN <<>>
    ELSE (IF tree[j].nodeType = "text" /\ i \in Ancestors(tree, j)
              THEN tree[j].text ELSE <<>>) \o TextFrom(tree, i, j + 1)

\* node.textContent: a text node's characters, an element's descendant text.
textContent(tree, i) ==
    IF tree[i].nodeType = "text" THEN tree[i].text ELSE TextFrom(tree, i, i + 1)

\* DOM.nodeIndexOf: the place of the node among its parent's child nodes,
\* counted from 0.
nodeIndexOf(tree, i) ==
    Cardinality({j \in 1..(i - 1) :
        parentElement(tree, j) = parentElement(tree, i)})

\* part_001:7-43
nodeFilterSkipsCollapsed(tree, i) ==
    LET node == tree[i]
        direct == parentElement(tree, i)
        parent == IF NodeAt(tree, direct).type = "" /\ direct # 0
                      THEN parentElement(tree, direct) ELSE direct
        parentType == NodeAt(tree, parent).type
    IN  IF node.nodeType = "text" /\ parentType \notin {"phraseset", "phrase"}
            THEN "FILTER_SKIP"
        ELSE IF node.nodeType = "element" /\ node.collapsed
            THEN "FILTER_SKIP"
        ELSE IF node.nodeType = "element" /\ node.type = ""
            THEN "FILTER_SKIP"
        ELSE IF node.nodeType = "element" /\ node.type \in {"phraseset", "phrase"}
            THEN "FILTER_SKIP"
        ELSE "FILTER_ACCEPT"

nodeFilter(tree, i) ==
    LET node == tree[i]
        direct == parentElement(tree, i)
        parent == IF NodeAt(tree, direct).type = "" /\ direct # 0
                      THEN parentElement(tree, direct) ELSE direct
        parentType == NodeAt(tree, parent).type
    IN  IF node.nodeType = "text" /\ parentType \notin {"phraseset", "phrase"}
            THEN "FILTER_SKIP"
        ELSE IF node.nodeType = "element" /\ node.collapsed
            THEN "FILTER_REJECT"
        ELSE IF node.nodeType = "element" /\ node.type = ""
            THEN "FILTER_SKIP"
        ELSE IF node.nodeType = "element" /\ node.type \in {"phraseset", "phrase"}
            THEN "FILTER_SKIP"
        ELSE "FILTER_ACCEPT"

\* The TreeWalker reaches a node unless an element above it was rejected,
\* and yields the nodes it reaches that the filter accepts.
Walked(tree, i) ==
    /\ \A a \in Ancestors(tree, i) : nodeFilter(tree, a) # "FILTER_REJECT"
    /\ nodeFilter(tree, i) = "FILTER_ACCEPT"

\* The flattening loop without its test of the text.
flattenKeepsBlank(tree) ==
    SelectSeq([i \in 1..Len(tree) |-> i], LAMBDA i : Walked(tree, i))

\* part_001:66-75, the flattening loop of toVox
flatten(tree) ==
    SelectSeq([i \in 1..Len(tree) |-> i],
              LAMBDA i : Walked(tree, i) /\ trim(textContent(tree, i)) # <<>>)

\* ------------------------------------------------------------- RAG.state
\* The state holds a value for every context the phrase was generated with
\* (rag.js:1496-1575): a getter returns the value held.
getCoach(st, context) == st.coaches[context]
getInteger(st, context) == st.integers[context]
getStation(st, context) == st.stations[context]
getStationList(st, context) == st.stationLists[context]
getService(st, context) == st.services[context]
getTime(st, context) == st.times[context]

\* time.split(':') of a time "HH:MM", held as the characters of the string
\* in pieces: the pieces that are not the colon.
split(time) == SelectSeq(time, LAMBDA x : x # ":")

\* Strings.filename and Database.getStationVox: the normalised form of a
\* name and the vox code of a station.
filename(name) ==
    CASE name = "a fault" -> "a_fault"
      [] name = "Night Riviera" -> "night_riviera"
      [] name = "Virgin Trains" -> "virgin_trains"
      [] OTHER -> name

getStationVox(code) ==
    CASE code = "ABW" -> "abbey_wood"
      [] code = "BHM" -> "birmingham"
      [] code = "CDF" -> "cardiff"
      [] code = "DVP" -> "dover"
      [] OTHER -> code

\* ------------------------------------------------------------- resolving
\* Silences of the resolver are in thousandths of a second.
\* The look-ahead reading the node itself, the index being taken from 1.
getInflectionAtIdx(tree, flat, k) ==
    IF startsWith(trim(textContent(tree, flat[k])), ".") THEN "end" ELSE "mid"

\* part_001:116-123; k is the place of the node in flattened, from 1.
getInflection(tree, flat, k) ==
    IF k + 1 <= Len(flat) /\ startsWith(trim(textContent(tree, flat[k + 1])), ".")
        THEN "end" ELSE "mid"

\* resolveText pushing the closing silence of text without words.
resolveTextClosesWordless(tree, i) ==
    LET text == clean(textContent(tree, i))
        direct == parentElement(tree, i)
        parent == IF NodeAt(tree, direct).type = "" /\ direct # 0
                      THEN parentElement(tree, direct) ELSE direct
        type == NodeAt(tree, parent).type
        ref == NodeAt(tree, parent).ref
        id == Str(<<type, ".", ref>>
                  \o (IF type = "phraseset"
                          THEN <<".", NodeAt(tree, parent).idx>> ELSE <<>>)
                  \o <<".", ToString(nodeIndexOf(tree, i))>>)
        lead == IF startsWith(text, ".") THEN <<Silence(650)>> ELSE <<>>
        trail == IF endsWith(text, ".") THEN <<Silence(650)>> ELSE <<>>
    IN  IF text = <<".">> THEN <<Silence(650)>>
        ELSE IF ~MatchesWord(text) THEN lead \o trail
        ELSE lead \o <<Segment(id)>> \o trail

\* resolveText without its test for words in the text.
resolveTextAlwaysSegment(tree, i) ==
    LET text == clean(textContent(tree, i))
        direct == parentElement(tree, i)
        parent == IF NodeAt(tree, direct).type = "" /\ direct # 0
                      THEN parentElement(tree, direct) ELSE direct
        type == NodeAt(tree, parent).type
        ref == NodeAt(tree, parent).ref
        id == Str(<<type, ".", ref>>
                  \o (IF type = "phraseset"
                          THEN <<".", NodeAt(tree, parent).idx>> ELSE <<>>)
                  \o <<".", ToString(nodeIndexOf(tree, i))>>)
        lead == IF startsWith(text, ".") THEN <<Silence(650)>> ELSE <<>>
    IN  IF text = <<".">> THEN <<Silence(650)>>
        ELSE lead \o <<Segment(id)>>
                 \o (IF endsWith(text, ".") THEN <<Silence(650)>> ELSE <<>>)

\* part_001:125-167
resolveText(tree, i) ==
    LET text == clean(textContent(tree, i))
        direct == parentElement(tree, i)
        parent == IF NodeAt(tree, direct).type = "" /\ direct # 0
                      THEN parentElement(tree, direct) ELSE direct
        type == NodeAt(tree, parent).type
        ref == NodeAt(tree, parent).ref
        id == Str(<<type, ".", ref>>
                  \o (IF type = "phraseset"
                          THEN <<".", NodeAt(tree, parent).idx>> ELSE <<>>)
                  \o <<".", ToString(nodeIndexOf(tree, i))>>)
        lead == IF startsWith(text, ".") THEN <<Silence(650)>> ELSE <<>>
    IN  IF text = <<".">> THEN <<Silence(650)>>
        ELSE IF ~MatchesWord(text) THEN lead
        ELSE lead \o <<Segment(id)>>
                 \o (IF endsWith(text, ".") THEN <<Silence(650)>> ELSE <<>>)

\* The trailing silence of an inflected part, pushed when it is mid-sentence.
MidPause(inflect, dur) == IF inflect = "mid" THEN <<Silence(dur)>> ELSE <<>>

\* The trailing silence pushed whatever the inflection.
resolveCoachAlwaysTrail(tree, st, flat, k) ==
    LET coach == getCoach(st, tree[flat[k]].context)
        inflect == getInflection(tree, flat, k)
    IN  <<Silence(200), Segment(Str(<<"letter", ".", coach, ".", inflect>>)),
          Silence(200)>>

\* part_001:169-180
resolveCoach(tree, st, flat, k) ==
    LET coach == getCoach(st, tree[flat[k]].context)
        inflect == getInflection(tree, flat, k)
    IN  <<Silence(200), Segment(Str(<<"letter", ".", coach, ".", inflect>>))>>
            \o MidPause(inflect, 200)

\* part_001:182-193
resolveExcuse(tree, st, flat, k) ==
    LET key == filename(st.excuse)
        inflect == getInflection(tree, flat, k)
    IN  <<Silence(150), Segment(Str(<<"excuse", ".", key, ".", inflect>>))>>
            \o MidPause(inflect, 200)

\* part_001:195-211
resolveIntegerAnySuffix(tree, st, i) ==
    LET element == tree[i]
        integer == getInteger(st, element.context)
        parts == <<Silence(125),
                   Segment(Str(<<"number", ".", ToString(integer), ".", "mid">>))>>
    IN  IF element.singular # ""
            THEN parts \o <<Silence(150), Segment(Str(
                     <<"number", ".", "suffix", ".", element.singular, ".", "end">>))>>
        ELSE IF element.plural # ""
            THEN parts \o <<Silence(150), Segment(Str(
                     <<"number", ".", "suffix", ".", element.plural, ".", "end">>))>>
        ELSE parts \o <<Silence(150)>>

resolveInteger(tree, st, i) ==
    LET element == tree[i]
        integer == getInteger(st, element.context)
        parts == <<Silence(125),
                   Segment(Str(<<"number", ".", ToString(integer), ".", "mid">>))>>
    IN  IF element.singular # "" /\ integer = 1
            THEN parts \o <<Silence(150), Segment(Str(
                     <<"number", ".", "suffix", ".", element.singular, ".", "end">>))>>
        ELSE IF element.plural # "" /\ integer # 1
            THEN parts \o <<Silence(150), Segment(Str(
                     <<"number", ".", "suffix", ".", element.plural, ".", "end">>))>>
        ELSE parts \o <<Silence(150)>>

\* part_001:213-218
resolveNamed(st) ==
    <<Silence(200), Segment(Str(<<"named", ".", filename(st.named), ".", "mid">>)),
      Silence(200)>>

\* part_001:220-231
resolvePlatform(tree, st, flat, k) ==
    LET platform == st.platform
        inflect == getInflection(tree, flat, k)
        letter == IF platform[2] = "??" THEN "M" ELSE platform[2]
    IN  <<Silence(150),
          Segment(Str(<<"number", ".", platform[1], letter, ".", inflect>>))>>
            \o MidPause(inflect, 200)

\* The lead-in silence pushed whatever the key before.
resolveServiceAlwaysLead(tree, st, i, res) ==
    LET service == filename(getService(st, tree[i].context))
    IN  <<Silence(150), Segment(Str(<<"service", ".", service, ".", "mid">>)),
          Silence(150)>>

\* part_001:233-244; res is this.resolved as the nodes before have left it.
resolveService(tree, st, i, res) ==
    LET service == filename(getService(st, tree[i].context))
    IN  (IF res # <<>> /\ res[Len(res)].type = "number"
             THEN <<>> ELSE <<Silence(150)>>)
            \o <<Segment(Str(<<"service", ".", service, ".", "mid">>)), Silence(150)>>

\* The trailing silence pushed at the end of a sentence instead of amid it.
resolveStationTrailAtEnd(tree, st, flat, k) ==
    LET voxKey == getStationVox(getStation(st, tree[flat[k]].context))
        inflect == getInflection(tree, flat, k)
    IN  <<Silence(200), Segment(Str(<<"station", ".", voxKey, ".", inflect>>))>>
            \o (IF inflect = "end" THEN <<Silence(200)>> ELSE <<>>)

\* part_001:246-258
resolveStation(tree, st, flat, k) ==
    LET voxKey == getStationVox(getStation(st, tree[flat[k]].context))
        inflect == getInflection(tree, flat, k)
    IN  <<Silence(200), Segment(Str(<<"station", ".", voxKey, ".", inflect>>))>>
            \o MidPause(inflect, 200)

RECURSIVE Concat(_)
Concat(seqs) == IF seqs = <<>> THEN <<>> ELSE Head(seqs) \o Concat(Tail(seqs))

\* part_001:260-294
resolveStationListAlwaysAnd(tree, st, flat, k) ==
    LET ctx == tree[flat[k]].context
        list == getStationList(st, ctx)
        inflect == getInflection(tree, flat, k)
        station(j, as) ==
            Segment(Str(<<"station", ".", getStationVox(list[j]), ".", as>>))
        and == Segment(Str(<<"station", ".", "parts", ".", "and", ".", "mid">>))
        only == Segment(Str(<<"station", ".", "parts", ".", "only", ".", "end">>))
        member(j) ==
            IF j # Len(list) THEN <<station(j, "mid"), Silence(250)>>
            ELSE <<and, Silence(250)>>
                     \o (IF Len(list) = 1 /\ ctx = "calling"
                             THEN <<station(j, "mid"), Silence(200), only>>
                             ELSE <<station(j, inflect)>>)
    IN  <<Silence(200)>> \o Concat([j \in 1..Len(list) |-> member(j)])
            \o <<Silence(200)>>

\* The 'only' segment pushed for a list of one station in any context.
resolveStationListOnlyAnywhere(tree, st, flat, k) ==
    LET ctx == tree[flat[k]].context
        list == getStationList(st, ctx)
        inflect == getInflection(tree, flat, k)
        station(j, as) ==
            Segment(Str(<<"station", ".", getStationVox(list[j]), ".", as>>))
        and == Segment(Str(<<"station", ".", "parts", ".", "and", ".", "mid">>))
        only == Segment(Str(<<"station", ".", "parts", ".", "only", ".", "end">>))
        member(j) ==
            IF j # Len(list) THEN <<station(j, "mid"), Silence(250)>>
            ELSE (IF Len(list) > 1 THEN <<and, Silence(250)>> ELSE <<>>)
                     \o (IF Len(list) = 1
                             THEN <<station(j, "mid"), Silence(200), only>>
                             ELSE <<station(j, inflect)>>)
    IN  <<Silence(200)>> \o Concat([j \in 1..Len(list) |-> member(j)])
            \o <<Silence(200)>>

resolveStationList(tree, st, flat, k) ==
    LET ctx == tree[flat[k]].context
        list == getStationList(st, ctx)
        inflect == getInflection(tree, flat, k)
        station(j, as) ==
            Segment(Str(<<"station", ".", getStationVox(list[j]), ".", as>>))
        and == Segment(Str(<<"station", ".", "parts", ".", "and", ".", "mid">>))
        only == Segment(Str(<<"station", ".", "parts", ".", "only", ".", "end">>))
        member(j) ==
            IF j # Len(list) THEN <<station(j, "mid"), Silence(250)>>
            ELSE (IF Len(list) > 1 THEN <<and, Silence(250)>> ELSE <<>>)
                     \o (IF Len(list) = 1 /\ ctx = "calling"
                             THEN <<station(j, "mid"), Silence(200), only>>
                             ELSE <<station(j, inflect)>>)
    IN  <<Silence(200)>> \o Concat([j \in 1..Len(list) |-> member(j)])
            \o <<Silence(200)>>

\* part_001:296-315
resolveTimeNoMidnight(tree, st, i) ==
    LET time == split(getTime(st, tree[i].context))
        hours == Segment(Str(<<"number", ".", time[1], ".", "begin">>))
    IN  IF time[2] = "00"
            THEN <<Silence(200), hours, Silence(75),
                   Segment(Str(<<"number", ".", "hundred", ".", "mid">>)),
                   Silence(150)>>
        ELSE <<Silence(200), hours, Silence(200),
               Segment(Str(<<"number", ".", time[2], ".", "mid">>)), Silence(150)>>

resolveTime(tree, st, i) ==
    LET time == split(getTime(st, tree[i].context))
        hours == Segment(Str(<<"number", ".", time[1], ".", "begin">>))
    IN  IF time[1] = "00" /\ time[2] = "00"
            THEN <<Silence(200), Segment(Str(<<"number", ".", "0000", ".", "mid">>)),
                   Silence(200)>>
        ELSE IF time[2] = "00"
            THEN <<Silence(200), hours, Silence(75),
                   Segment(Str(<<"number", ".", "hundred", ".", "mid">>)),
                   Silence(150)>>
        ELSE <<Silence(200), hours, Silence(200),
               Segment(Str(<<"number", ".", time[2], ".", "mid">>)), Silence(150)>>

\* resolveVox without the silence after the key.
resolveVoxWithoutTrail(tree, i) ==
    LET text == trim(textContent(tree, i))
    IN  (IF startsWith(text, ".") THEN <<Silence(650)>> ELSE <<>>)
            \o <<Segment(Str(<<tree[i].key>>))>>

\* part_001:317-331; innerText is the element's text content, the element
\* being rendered.
resolveVox(tree, i) ==
    LET text == trim(textContent(tree, i))
    IN  (IF startsWith(text, ".") THEN <<Silence(650)>> ELSE <<>>)
            \o <<Segment(Str(<<tree[i].key>>))>>
            \o (IF endsWith(text, ".") THEN <<Silence(650)>> ELSE <<>>)

\* The switch falling into its last case for a type it does not know.
resolveUnknownAsVox(tree, st, flat, k, res) ==
    LET i == flat[k]
        type == tree[i].type
    IN  IF tree[i].nodeType = "text" THEN resolveText(tree, i)
        ELSE CASE type = "coach" -> resolveCoach(tree, st, flat, k)
               [] type = "excuse" -> resolveExcuse(tree, st, flat, k)
               [] type = "integer" -> resolveInteger(tree, st, i)
               [] type = "named" -> resolveNamed(st)
               [] type = "platform" -> resolvePlatform(tree, st, flat, k)
               [] type = "service" -> resolveService(tree, st, i, res)
               [] type = "station" -> resolveStation(tree, st, flat, k)
               [] type = "stationlist" -> resolveStationList(tree, st, flat, k)
               [] type = "time" -> resolveTime(tree, st, i)
               [] OTHER -> resolveVox(tree, i)

\* part_001:91-114: the keys of the k-th flattened node.
resolve(tree, st, flat, k, res) ==
    LET i == flat[k]
        type == tree[i].type
    IN  IF tree[i].nodeType = "text" THEN resolveText(tree, i)
        ELSE CASE type = "coach" -> resolveCoach(tree, st, flat, k)
               [] type = "excuse" -> resolveExcuse(tree, st, flat, k)
               [] type = "integer" -> resolveInteger(tree, st, i)
               [] type = "named" -> resolveNamed(st)
               [] type = "platform" -> resolvePlatform(tree, st, flat, k)
               [] type = "service" -> resolveService(tree, st, i, res)
               [] type = "station" -> resolveStation(tree, st, flat, k)
               [] type = "stationlist" -> resolveStationList(tree, st, flat, k)
               [] type = "time" -> resolveTime(tree, st, i)
               [] type = "vox" -> resolveVox(tree, i)
               [] OTHER -> <<>>

\* part_001:78-79, the forEach that pushes every node's keys on resolved:
\* what the resolve() of each flattened node returns, in order, res being
\* resolved as the node finds it.
RECURSIVE Contributed(_, _, _, _, _)
Contributed(tree, st, flat, k, res) ==
    IF k > Len(flat) THEN <<>>
    ELSE LET keys == resolve(tree, st, flat, k, res)
         IN  <<[node |-> flat[k], keys |-> keys]>>
                 \o Contributed(tree, st, flat, k + 1, res \o keys)

Contributions(tree) == Contributed(tree, ragState, flatten(tree), 1, <<>>)

KeysOf(parts) == Concat([k \in 1..Len(parts) |-> parts[k].keys])

\* toVox() without its reset of resolved.
toVoxKeepsResolved(tree, st, old) ==
    LET flat == flatten(tree)
        parts == Contributed(tree, st, flat, 1, old.resolved)
    IN  [phrase |-> tree, flattened |-> flat, pushed |-> parts,
         resolved |-> old.resolved \o KeysOf(parts)]

\* toVox() taking the collapsed attribute off the elements it walks past.
toVoxExpands(tree, st, old) ==
    LET flat == flatten(tree)
        parts == Contributed(tree, st, flat, 1, <<>>)
    IN  [phrase |-> [i \in 1..Len(tree) |-> [tree[i] EXCEPT !.collapsed = FALSE]],
         flattened |-> flat, pushed |-> parts, resolved |-> KeysOf(parts)]

\* part_001:58-82: toVox() on a resolver whose fields are old, over the tree
\* under its root; the tree and the fields after the call, of which resolved
\* is what the call returns, and what was pushed on resolved node by node.
\* The walker, the resolve methods and the helpers they call read the tree
\* and assign to none of its nodes.
toVox(tree, st, old) ==
    LET flat == flatten(tree)
        parts == Contributed(tree, st, flat, 1, <<>>)
    IN  [phrase |-> tree, flattened |-> flat, pushed |-> parts,
         resolved |-> KeysOf(parts)]

\* ------------------------------------------------------------ the inputs
\* Bounds of the phrases and states resolved.
\* Most parts in a row in a phrase
MaxItems == 2
\* Most parts inside an optional (collapsible) phrase
MaxInner == 1
\* Most stations in a station list
MaxStations == 3
\* Most toVox() calls between two changes of the tree
MaxCalls == 2

Word == <<"a">>

\* Text written in a phrase: a word, a terminator alone, before or after a
\* word, blanks, a comma before a terminator, a terminator before a comma
\* among blanks, words with blanks to clean away.
Texts ==
    {Word, <<".">>, <<".", " ", "a">>, <<"a", ".">>, <<" ">>, <<",", ".">>,
     <<" ", ".", ",", " ">>, <<"a", " ", " ", "a", " ", ".">>}

\* The children of an element that stands right before them.
Nest(inner) ==
    [j \in 1..Len(inner) |->
        IF inner[j].up = 0 THEN [inner[j] EXCEPT !.up = j] ELSE inner[j]]

\* rag.js:695-809, the element processors: a typed element holds its value
\* as one text node.
Leaf(element, label) == <<element>> \o Nest(<<TextNode(label)>>)

In(type, context) == [Element(type) EXCEPT !.context = context]

\* rag.js:796-808 makeCollapsible: the optional phrase holds a toggle and an
\* inner wrapper, both typeless, and its parts inside the wrapper.
Fold(collapsed, inner) ==
    <<[Element("phrase") EXCEPT !.ref = "opt", !.chance = "50",
                                !.collapsed = collapsed]>>
        \o Nest(<<Element("")>>)
        \o [Nest(<<Element("")>>) EXCEPT ![1].up = 2]
        \o Nest(inner)

Integers ==
    {Leaf([In("integer", c) EXCEPT !.singular = s, !.plural = p], Word) :
        c \in {"coaches", "delayed"}, s \in {"", "coach"}, p \in {"", "coaches"}}

Voxes ==
    {Leaf([Element("vox") EXCEPT !.key = "phrase.hello.0"], label) :
        label \in {Word, <<".", " ", "a">>, <<"a", ".">>}}

\* One part of a phrase, as the nodes it is made of.
Items ==
    {<<TextNode(t)>> : t \in Texts} \cup Integers \cup Voxes
        \cup {Leaf(In("coach", "first"), Word), Leaf(Element("excuse"), Word),
              Leaf(Element("named"), Word), Leaf(Element("platform"), Word),
              Leaf(In("service", "provider"), Word),
              Leaf(In("station", "destination"), Word),
              Leaf(In("station", "destination"), <<" ">>),
              Leaf(In("stationlist", "calling"), Word),
              Leaf(In("stationlist", "changes"), Word),
              Leaf(In("time", "main"), Word), Leaf(Element("unknown"), Word),
              <<[Element("phrase") EXCEPT !.ref = "sample"]>>
                  \o Nest(<<TextNode(Word)>>)}

\* What stands before, inside and after an optional phrase.
Around ==
    {<<>>, <<TextNode(Word)>>, <<TextNode(<<".">>)>>, <<TextNode(<<",">>)>>,
     <<TextNode(<<".", " ", "a">>)>>, Leaf(In("service", "provider"), Word),
     Leaf(In("station", "destination"), Word), Leaf(In("coach", "first"), Word)}

Inside ==
    {<<TextNode(Word)>>, <<TextNode(<<".", " ", "a">>)>>, <<TextNode(<<" ">>)>>,
     Leaf(In("service", "provider"), Word),
     Leaf(In("station", "destination"), Word),
     <<[Element("phrase") EXCEPT !.ref = "sample"]>> \o Nest(<<TextNode(Word)>>),
     Fold(TRUE, <<TextNode(Word)>>)}

Rows(items, n) == UNION {{Concat(row) : row \in [1..m -> items]} : m \in 1..n}

Phrases ==
    Rows(Items, MaxItems)
        \cup {b \o Fold(c, inner) \o a :
                 b \in Around, c \in BOOLEAN, inner \in Rows(Inside, MaxInner),
                 a \in Around}

Codes == <<"ABW", "BHM", "CDF", "DVP", "EDB">>
StationLists == {SubSeq(Codes, 1, n) : n \in 1..MaxStations}
Times ==
    {<<"00", ":", "00">>, <<"14", ":", "00">>, <<"00", ":", "30">>,
     <<"09", ":", "05">>}
\* rag.js:1601-1612: the platform is a number and a letter, '' for none;
\* '??' is the letter the resolver tests for.
Platforms == {<<"4", "">>, <<"4", "A">>, <<"4", "??">>}

RagState(calling, changes, time, platform) ==
    [coaches |-> ("first" :> "A"),
     integers |-> ("coaches" :> 1) @@ ("delayed" :> 5),
     stations |-> ("destination" :> "ABW"),
     stationLists |-> ("calling" :> calling) @@ ("changes" :> changes),
     services |-> ("provider" :> "Virgin Trains"),
     times |-> ("main" :> time),
     excuse |-> "a fault", named |-> "Night Riviera", platform |-> platform]

Uses(tree, type, context) ==
    \E i \in 1..Len(tree) : tree[i].type = type /\ tree[i].context = context

\* The states a phrase is resolved in: every value of what the phrase
\* shows, one value of what it does not.
StatesOf(tree) ==
    {RagState(calling, changes, time, platform) :
        calling \in IF Uses(tree, "stationlist", "calling")
                        THEN StationLists ELSE {<<"ABW">>},
        changes \in IF Uses(tree, "stationlist", "changes")
                        THEN StationLists ELSE {<<"ABW">>},
        time \in IF Uses(tree, "time", "main") THEN Times ELSE {<<"14", ":", "00">>},
        platform \in IF Uses(tree, "platform", "") THEN Platforms ELSE {<<"4", "">>}}

\* ------------------------------------------------------------ the actions
\* A resolver is constructed over a generated phrase (part_001:51-56).
ResolverInit ==
    /\ EngineInit
    /\ phrase \in Phrases
    /\ ragState \in StatesOf(phrase)
    /\ flattened = <<>>
    /\ resolved = <<>>
    /\ results = <<>>
    /\ pushed = <<>>

\* A caller invokes toVox().
ToVox ==
    /\ Len(results) < MaxCalls
    /\ \E after \in {toVox(phrase, ragState,
                              [flattened |-> flattened, resolved |-> resolved])} :
           /\ phrase' = after.phrase
           /\ flattened' = after.flattened
           /\ resolved' = after.resolved
           /\ results' = Append(results, after.resolved)
           /\ pushed' = after.pushed
    /\ UNCHANGED ragState
    /\ UNCHANGED <<engine, timers, sounding, halted, detached, spoken, issued,
                   played, skipped, stoppedBy>>

\* rag.js:1207-1217 Collapsibles.set: the user opens or closes an optional
\* phrase.
SetCollapsed ==
    \E i \in 1..Len(phrase), state \in BOOLEAN :
        /\ phrase[i].chance # ""
        /\ phrase[i].collapsed # state
        /\ phrase' = [phrase EXCEPT ![i].collapsed = state]
        /\ results' = <<>>
        /\ UNCHANGED <<ragState, flattened, resolved, pushed>>
        /\ UNCHANGED <<engine, timers, sounding, halted, detached, spoken,
                       issued, played, skipped, stoppedBy>>

ResolverNext ==
    \/ ToVox
    \/ SetCollapsed

ResolverSpec == ResolverInit /\ [][ResolverNext]_vars

\* ------------------------------------------------ properties of resolving
\* C14: on a phrase with no collapsed element and in a fixed state, every
\* toVox() call returns the same key sequence as the call before it: the
\* same keys in the same order, nothing of the earlier call left in it.
NoCollapsed(tree) == \A i \in 1..Len(tree) : ~tree[i].collapsed

ResolvingTwiceAgrees ==
    NoCollapsed(phrase) =>
        \A c \in 2..Len(results) : results[c] = results[c - 1]

ResolvingTwiceAgreesWitness ==
    /\ NoCollapsed(phrase)
    /\ Len(results) = 2
    /\ Len(results[2]) > 3
    /\ \E i \in 1..Len(phrase) : phrase[i].type = "service"

\* The nodes of the subtree under the element e, e included.
Subtree(tree, e) == {e} \cup {j \in 1..Len(tree) : e \in Ancestors(tree, j)}

\* An optional phrase that is open and resolved: no element above it is
\* collapsed, and toVox() has run on the phrase as it is.
OpenFolds ==
    {e \in 1..Len(phrase) :
        /\ phrase[e].chance # "" /\ ~phrase[e].collapsed
        /\ \A a \in Ancestors(phrase, e) : ~phrase[a].collapsed
        /\ results # <<>>}

Collapse(e) == [phrase EXCEPT ![e].collapsed = TRUE]

\* C15: collapsing a subtree removes from the resolved sequence exactly the
\* keys the subtree contributed: what toVox() returns afterwards is what it
\* returned before without the keys of the subtree's nodes, the keys of
\* every node outside the subtree being the same in the same order.
CollapseRemovesOnlySubtreeKeys ==
    \A e \in OpenFolds :
        toVox(Collapse(e), ragState,
              [flattened |-> flattened, resolved |-> resolved]).resolved
            = KeysOf(SelectSeq(Contributions(phrase),
                               LAMBDA c : c.node \notin Subtree(phrase, e)))

\* The segments of a node's keys without their inflection, the last piece.
Uninflected(keys) ==
    [k \in 1..Len(SegmentKeys(keys)) |->
        SubSeq(SegmentKeys(keys)[k].val, 1, Len(SegmentKeys(keys)[k].val) - 1)]

\* C15 as amended: collapsing a subtree removes the keys of the subtree's
\* nodes and keeps every node outside it, in the same order.  Such a node
\* contributes the same keys, but for two: the flattened node right before
\* the subtree, whose inflection (and the trailing silence that goes with
\* it) follows the node that comes next now, and a service node that is the
\* first to contribute keys after the subtree, whose lead-in silence follows
\* the key that precedes it now; these two keep their segments but for the
\* inflection.
CollapseKeepsOtherKeys ==
    \A e \in OpenFolds :
        LET open == SelectSeq(Contributions(phrase),
                              LAMBDA c : c.node \notin Subtree(phrase, e))
            shut == Contributions(Collapse(e))
            before == Cardinality({k \in 1..Len(open) : open[k].node < e})
            removed == \E c \in 1..Len(Contributions(phrase)) :
                           Contributions(phrase)[c].node \in Subtree(phrase, e)
            excepted(k) ==
                /\ removed
                /\ \/ k = before
                   \/ /\ k > before
                      /\ phrase[open[k].node].type = "service"
                      /\ \A j \in (before + 1)..(k - 1) : shut[j].keys = <<>>
        IN  /\ Len(shut) = Len(open)
            /\ \A k \in 1..Len(open) :
                /\ shut[k].node = open[k].node
                /\ Uninflected(shut[k].keys) = Uninflected(open[k].keys)
                /\ ~excepted(k) => shut[k].keys = open[k].keys

\* A phrase was resolved that opens with a station and holds, open, an
\* optional phrase with sentence-opening text in it.
CollapseKeepsOtherKeysWitness ==
    \E e \in OpenFolds :
        /\ e > 1 /\ phrase[1].type = "station"
        /\ \E j \in Subtree(phrase, e) :
               startsWith(trim(textContent(phrase, j)), ".")
        /\ Len(Contributions(phrase)) > 2
        /\ resolved = KeysOf(Contributions(phrase))

\* What toVox() last returned, node by node: the contributions of the
\* phrase's nodes once toVox() has run on the phrase as it is.
Parts == IF results # <<>> THEN pushed ELSE <<>>

Returned == results # <<>> => resolved = KeysOf(Parts)

PartsOf(type) == {k \in 1..Len(Parts) : phrase[Parts[k].node].type = type}

StationKey(code, inflect) ==
    Segment(<<"station", ".", getStationVox(code), ".", inflect>>)
AndKey == Segment(<<"station", ".", "parts", ".", "and", ".", "mid">>)
OnlyKey == Segment(<<"station", ".", "parts", ".", "only", ".", "end">>)

Has(keys, key) == \E p \in 1..Len(keys) : keys[p] = key

\* C16: a station list of one member in the 'calling' context ends its
\* segments with the 'only' segment and has no 'and' connector; a list of
\* n >= 2 members has as its segments the first n-1 stations, each
\* 'station.{code}.mid', then one 'and' connector, then the last station
\* with the node's inflection, every segment before the last followed by
\* 0.25, and no 'only' segment.
StationListShape ==
    /\ Returned
    /\ \A k \in PartsOf("stationlist") :
        LET keys == Parts[k].keys
            segs == SegmentKeys(keys)
            ctx == phrase[Parts[k].node].context
            list == getStationList(ragState, ctx)
            n == Len(list)
            inflect == getInflection(phrase, flattened, k)
        IN  /\ (n = 1 /\ ctx = "calling") =>
                /\ segs # <<>> /\ segs[Len(segs)] = OnlyKey
                /\ ~Has(keys, AndKey)
            /\ n >= 2 =>
                /\ segs = [j \in 1..(n - 1) |-> StationKey(list[j], "mid")]
                              \o <<AndKey, StationKey(list[n], inflect)>>
                /\ \A p \in 1..Len(keys) :
                       (~IsSilence(keys[p]) /\ keys[p] # StationKey(list[n], inflect))
                           => (p < Len(keys) /\ keys[p + 1] = Silence(250))
                /\ ~Has(keys, OnlyKey)

\* Two lists were resolved in one phrase: the calling list of one station
\* and a list of three.
StationListShapeWitness ==
    /\ results # <<>>
    /\ \E k \in PartsOf("stationlist") :
           /\ phrase[Parts[k].node].context = "calling"
           /\ Len(getStationList(ragState, "calling")) = 1
    /\ \E k \in PartsOf("stationlist") :
           Len(getStationList(ragState, phrase[Parts[k].node].context)) = 3

NumberKey(name, inflect) == Segment(<<"number", ".", name, ".", inflect>>)

\* C17: a time node resolves to [0.2, number.0000.mid, 0.2] for 00:00, to
\* [0.2, number.HH.begin, 0.075, number.hundred.mid, 0.15] for any other
\* time on the hour, and to [0.2, number.HH.begin, 0.2, number.MM.mid, 0.15]
\* for every other time.
TimeShape ==
    /\ Returned
    /\ \A k \in PartsOf("time") :
        LET time == getTime(ragState, phrase[Parts[k].node].context)
            HH == time[1]
            MM == time[3]
        IN  Parts[k].keys =
                IF time = <<"00", ":", "00">>
                    THEN <<Silence(200), NumberKey("0000", "mid"), Silence(200)>>
                ELSE IF MM = "00"
                    THEN <<Silence(200), NumberKey(HH, "begin"), Silence(75),
                           NumberKey("hundred", "mid"), Silence(150)>>
                ELSE <<Silence(200), NumberKey(HH, "begin"), Silence(200),
                       NumberKey(MM, "mid"), Silence(150)>>

\* Midnight was resolved.
TimeShapeWitness ==
    /\ results # <<>>
    /\ \E k \in PartsOf("time") :
           getTime(ragState, phrase[Parts[k].node].context) = <<"00", ":", "00">>

SuffixKey(word) == Segment(<<"number", ".", "suffix", ".", word, ".", "end">>)

\* C18: an integer node of value v resolves to [0.125, number.v.mid, 0.15]
\* followed by number.suffix.{singular}.end when v = 1 and a singular
\* suffix is given, by number.suffix.{plural}.end when v # 1 and a plural
\* suffix is given, and by nothing otherwise; no plural suffix follows 1
\* and no singular suffix follows another value.
IntegerShape ==
    /\ Returned
    /\ \A k \in PartsOf("integer") :
        LET element == phrase[Parts[k].node]
            v == getInteger(ragState, element.context)
            keys == Parts[k].keys
        IN  /\ keys =
                <<Silence(125), NumberKey(ToString(v), "mid"), Silence(150)>>
                    \o (IF v = 1 /\ element.singular # ""
                            THEN <<SuffixKey(element.singular)>>
                        ELSE IF v # 1 /\ element.plural # ""
                            THEN <<SuffixKey(element.plural)>>
                        ELSE <<>>)
            /\ (v = 1 /\ element.plural # element.singular)
                   => ~Has(keys, SuffixKey(element.plural))
            /\ (v # 1 /\ element.plural # element.singular)
                   => ~Has(keys, SuffixKey(element.singular))

\* Two integers were resolved in one phrase, both with a singular suffix
\* and no plural one: the value 1 and another value.
IntegerShapeWitness ==
    /\ results # <<>>
    /\ \E k \in PartsOf("integer") :
           /\ getInteger(ragState, phrase[Parts[k].node].context) = 1
           /\ phrase[Parts[k].node].singular # ""
    /\ \E k \in PartsOf("integer") :
           /\ getInteger(ragState, phrase[Parts[k].node].context) # 1
           /\ phrase[Parts[k].node].singular # ""
           /\ phrase[Parts[k].node].plural = ""

\* ----------------------------------------------- the end of a played node
\* C21: when the playing node ends while the engine is speaking, the current
\* node is cleared and playNext runs in the same step: a head request that
\* is done and has a buffer is started at once, no timer firing, and with
\* no completed head there is no current node.  The ended event of a node
\* that stop() halted changes nothing.
EndedAdvancesAtOnce ==
    [][/\ (/\ isSpeaking /\ isSpeaking' /\ timers' = timers
           /\ \E n \in sounding : n \notin sounding')
          => /\ (pendingReqs = <<>> \/ ~Head(pendingReqs).isDone)
                 => (currentBufNode' = None /\ pendingReqs' = pendingReqs)
             /\ (pendingReqs # <<>> /\ Head(pendingReqs).isDone
                     /\ Head(pendingReqs).buffer)
                 => /\ currentBufNode' # None
                    /\ Get(currentBufNode').pos = Head(pendingReqs).pos
                    /\ Get(currentBufNode') \in sounding'
                    /\ pendingReqs' = Tail(pendingReqs)
       /\ (halted' # halted /\ halted' \subseteq halted)
          => UNCHANGED <<engine, timers, sounding, issued, played, skipped>>
      ]_vars

\* A node is playing, a node was played before it, and the next request is
\* done with its buffer: the node's end starts it.
EndedAdvancesAtOnceWitness ==
    /\ isSpeaking
    /\ currentBufNode # None /\ Get(currentBufNode) \in sounding
    /\ Len(played) >= 2
    /\ pendingReqs # <<>> /\ Head(pendingReqs).isDone /\ Head(pendingReqs).buffer
    /\ halted # {}

\* ------------------------------------------------------------ inflection
\* The inflection a node's keys carry: the last piece of its first segment.
InflectionOf(keys) ==
    LET key == SegmentKeys(keys)[1].val IN key[Len(key)]

Inflected == {"coach", "excuse", "platform", "station"}

InCollapsed(tree, i) ==
    \E a \in Ancestors(tree, i) \cup {i} :
        tree[a].nodeType = "element" /\ tree[a].collapsed

\* C22: a node's inflection is 'end' exactly when a node follows it in the
\* flattened list and that node's trimmed text begins with '.', and 'mid'
\* otherwise, so for the last flattened node too; the node looked at is one
\* of the flattened list, never a collapsed or whitespace-only one.
InflectionLooksAhead ==
    /\ Returned
    /\ \A k \in 1..Len(Parts) :
        /\ flattened[k] = Parts[k].node
        /\ ~InCollapsed(phrase, flattened[k])
        /\ trim(textContent(phrase, flattened[k])) # <<>>
        /\ phrase[flattened[k]].type \in Inflected =>
            (InflectionOf(Parts[k].keys) = "end"
                <=> /\ k < Len(flattened)
                    /\ startsWith(trim(textContent(phrase, flattened[k + 1])), "."))
        /\ (phrase[flattened[k]].type \in Inflected /\ k = Len(flattened))
            => InflectionOf(Parts[k].keys) = "mid"
        /\ phrase[flattened[k]].type \in Inflected
            => InflectionOf(Parts[k].keys) \in {"mid", "end"}

\* A station was resolved at 'end' by the terminator that follows a
\* collapsed optional phrase, whose own text opens with a terminator.
InflectionLooksAheadWitness ==
    /\ results # <<>>
    /\ \E k \in PartsOf("station") :
        /\ InflectionOf(Parts[k].keys) = "end"
        /\ \E i \in (flattened[k] + 1)..(flattened[k + 1] - 1) :
               phrase[i].collapsed

\* ------------------------------------------------------------ flattening
\* The nearest ancestor of a node that has a type; the root has one.
RECURSIVE NearestTyped(_, _)
NearestTyped(tree, i) ==
    LET p == parentElement(tree, i)
    IN  IF NodeAt(tree, p).type # "" THEN p ELSE NearestTyped(tree, p)

Speakable(tree, i) ==
    /\ ~InCollapsed(tree, i)
    /\ trim(textContent(tree, i)) # <<>>
    /\ IF tree[i].nodeType = "text"
           THEN NodeAt(tree, NearestTyped(tree, i)).type \in {"phrase", "phraseset"}
           ELSE tree[i].type \notin {"", "phrase", "phraseset"}

\* C23: the flattened list holds, in document order, exactly the non-blank
\* text nodes whose nearest typed ancestor is a phrase or phraseset and the
\* typed elements with non-blank text that are no containers, none of them
\* inside a collapsed element at any depth.
FlattenedIsSpeakable ==
    results # <<>> =>
        flattened = SelectSeq([i \in 1..Len(phrase) |-> i],
                              LAMBDA i : Speakable(phrase, i))

\* A phrase was flattened that holds an open optional phrase with a
\* collapsed one inside it, text in both, and an element before them.
FlattenedIsSpeakableWitness ==
    /\ results # <<>>
    /\ \E e \in OpenFolds, i \in 1..Len(phrase) :
           /\ e \in Ancestors(phrase, i)
           /\ phrase[i].collapsed
           /\ \E j \in 1..Len(phrase) :
                  /\ i \in Ancestors(phrase, j)
                  /\ phrase[j].nodeType = "text" /\ phrase[j].text = Word
    /\ \E k \in 1..Len(flattened) : phrase[flattened[k]].nodeType = "element"
    /\ \E k \in 1..Len(flattened) : phrase[flattened[k]].nodeType = "text"

\* ------------------------------------------------ the keys of each type
\* The inflection of the k-th flattened node, as C22 states it.
Inflection(k) ==
    IF k < Len(flattened)
           /\ startsWith(trim(textContent(phrase, flattened[k + 1])), ".")
        THEN "end" ELSE "mid"

\* C24: a station node resolves to a lead silence of 0.2, the segment
\* station.{voxCode}.{inflection} and a trailing silence of 0.2, with the
\* inflection 'mid' and with the inflection 'end'.
StationHasLeadAndTrail ==
    /\ Returned
    /\ \A k \in PartsOf("station") :
        Parts[k].keys =
            <<Silence(200),
              StationKey(getStation(ragState, phrase[Parts[k].node].context),
                         Inflection(k)),
              Silence(200)>>

\* C24 as amended: a station node resolves to a lead silence of 0.2 and the
\* segment station.{voxCode}.{inflection}, followed by a trailing silence
\* of 0.2 exactly when the inflection is 'mid'; at 'end' the segment is the
\* node's last key.
StationShape ==
    /\ Returned
    /\ \A k \in PartsOf("station") :
        Parts[k].keys =
            <<Silence(200),
              StationKey(getStation(ragState, phrase[Parts[k].node].context),
                         Inflection(k))>>
                \o (IF Inflection(k) = "mid" THEN <<Silence(200)>> ELSE <<>>)

\* A station was resolved at the end of its sentence, and one amid it.
StationShapeWitness ==
    /\ results # <<>>
    /\ \E k \in PartsOf("station") : Inflection(k) = "end"
    /\ \E k \in PartsOf("station") : Inflection(k) = "mid"

\* C25: a platform node resolves to [0.15, number.{digit}{letter}.
\* {inflection}] and a trailing silence only at 'mid'; the letter is the
\* platform's own, and the fixed placeholder letter when the platform has
\* none.
PlatformShape ==
    /\ Returned
    /\ \A k \in PartsOf("platform") :
        LET platform == ragState.platform
            letter == IF platform[2] \in {"", "??"} THEN "M" ELSE platform[2]
        IN  Parts[k].keys =
                <<Silence(150),
                  Segment(<<"number", ".", platform[1], letter, ".", Inflection(k)>>)>>
                    \o (IF Inflection(k) = "mid" THEN <<Silence(200)>> ELSE <<>>)

\* The keys resolved before the k-th flattened node.
KeysBefore(k) == KeysOf(SubSeq(Parts, 1, k - 1))

\* C26: a service node resolves to [0.15, service.{name}.mid, 0.15], the
\* leading 0.15 left out exactly when the last key resolved before the node
\* is a silence; the first resolved node has its lead-in.  Where the node's
\* keys start in the result, no two silences stand side by side.
ServiceShape ==
    /\ Returned
    /\ \A k \in PartsOf("service") :
        LET name == filename(getService(ragState, phrase[Parts[k].node].context))
            body == <<Segment(<<"service", ".", name, ".", "mid">>), Silence(150)>>
            prior == KeysBefore(k)
            keys == Parts[k].keys
        IN  /\ keys \in {body, <<Silence(150)>> \o body}
            /\ keys = body <=> (prior # <<>> /\ IsSilence(prior[Len(prior)]))
            /\ prior = <<>> => keys = <<Silence(150)>> \o body
            /\ LET p == Len(prior) + 1
               IN  p > 1 => ~(IsSilence(resolved[p - 1]) /\ IsSilence(resolved[p]))

\* A service was resolved after a node that ends in a silence, and one
\* after a node that ends in a segment.
ServiceShapeWitness ==
    /\ results # <<>>
    /\ \E k \in PartsOf("service") :
           KeysBefore(k) # <<>> /\ IsSilence(KeysBefore(k)[Len(KeysBefore(k))])
    /\ \E k \in PartsOf("service") :
           KeysBefore(k) # <<>> /\ ~IsSilence(KeysBefore(k)[Len(KeysBefore(k))])

TextParts == {k \in 1..Len(Parts) : phrase[Parts[k].node].nodeType = "text"}

\* The segment reference of the text node i: the type and ref of its
\* container, the choice index of a phraseset, the node's child index.
TextKey(i) ==
    LET container == NodeAt(phrase, NearestTyped(phrase, i))
    IN  Segment(Str(<<container.type, ".", container.ref>>
                    \o (IF container.type = "phraseset"
                            THEN <<".", container.idx>> ELSE <<>>)
                    \o <<".", ToString(nodeIndexOf(phrase, i))>>))

Pause(on) == IF on THEN <<Silence(650)>> ELSE <<>>

\* C27: text that is exactly '.' yields [0.65] alone; any other text yields
\* one segment reference {type}.{ref}.{childIndex}, with the choice index
\* inside a phraseset, preceded by 0.65 exactly when the cleaned text
\* begins with '.' and followed by 0.65 exactly when it ends with '.'.
TextIsOneSegment ==
    /\ Returned
    /\ \A k \in TextParts :
        LET text == clean(textContent(phrase, Parts[k].node))
        IN  Parts[k].keys =
                IF text = <<".">> THEN <<Silence(650)>>
                ELSE Pause(startsWith(text, ".")) \o <<TextKey(Parts[k].node)>>
                         \o Pause(endsWith(text, "."))

\* C27 as amended: text that is exactly '.' yields [0.65] alone; other text
\* with no letter or digit in it yields no segment reference, only 0.65
\* when it begins with '.'; all other text yields one segment reference,
\* preceded by 0.65 exactly when the cleaned text begins with '.' and
\* followed by 0.65 exactly when it ends with '.'.
TextShape ==
    /\ Returned
    /\ \A k \in TextParts :
        LET text == clean(textContent(phrase, Parts[k].node))
        IN  Parts[k].keys =
                IF text = <<".">> THEN <<Silence(650)>>
                ELSE IF ~MatchesWord(text) THEN Pause(startsWith(text, "."))
                ELSE Pause(startsWith(text, ".")) \o <<TextKey(Parts[k].node)>>
                         \o Pause(endsWith(text, "."))

\* A comma alone was resolved, to no key, and text that ends in a
\* terminator, to a segment and a silence.
TextShapeWitness ==
    /\ results # <<>>
    /\ \E k \in TextParts : Parts[k].keys = <<>>
    /\ \E k \in TextParts : Len(Parts[k].keys) = 2 /\ IsSilence(Parts[k].keys[2])

\* C28: a coach node resolves to a lead-in silence of 0.2 and the segment
\* letter.{letter}.{inflection}, an excuse node to a lead-in silence of 0.15
\* and the segment excuse.{name}.{inflection}; a trailing silence of 0.2
\* follows exactly when the inflection is 'mid', and at 'end' the segment is
\* the node's last key.
CoachAndExcuseShape ==
    /\ Returned
    /\ \A k \in PartsOf("coach") :
        LET letter == getCoach(ragState, phrase[Parts[k].node].context)
        IN  Parts[k].keys =
                <<Silence(200), Segment(<<"letter", ".", letter, ".", Inflection(k)>>)>>
                    \o (IF Inflection(k) = "mid" THEN <<Silence(200)>> ELSE <<>>)
    /\ \A k \in PartsOf("excuse") :
        Parts[k].keys =
            <<Silence(150),
              Segment(<<"excuse", ".", filename(ragState.excuse), ".", Inflection(k)>>)>>
                \o (IF Inflection(k) = "mid" THEN <<Silence(200)>> ELSE <<>>)

\* A coach was resolved at the end of its sentence: its segment is its
\* last key.
CoachAndExcuseShapeWitness ==
    /\ results # <<>>
    /\ \E k \in PartsOf("coach") :
           Inflection(k) = "end" /\ ~IsSilence(Parts[k].keys[Len(Parts[k].keys)])

\* part_001:99-111, the types the switch of resolve knows, and the
\* containers.
Vocabulary ==
    {"coach", "excuse", "integer", "named", "platform", "service", "station",
     "stationlist", "time", "vox", "phrase", "phraseset"}

UnknownParts ==
    {k \in 1..Len(Parts) :
        /\ phrase[Parts[k].node].nodeType = "element"
        /\ phrase[Parts[k].node].type \notin Vocabulary}

\* C29: an element of a type outside the vocabulary contributes no key;
\* toVox() returns all the same, and what it returns is the keys of the
\* other nodes in their order.
UnknownTypeIsSilent ==
    /\ Returned
    /\ \A k \in UnknownParts : Parts[k].keys = <<>>
    /\ results # <<>> =>
        results[Len(results)] =
            KeysOf(SelectSeq(Parts, LAMBDA c :
                phrase[c.node].nodeType = "text"
                    \/ phrase[c.node].type \in Vocabulary))

\* An element of unknown type was resolved along with a node that has keys.
UnknownTypeIsSilentWitness ==
    /\ UnknownParts # {}
    /\ resolved # <<>>

\* C30: a station list of one member in a context other than 'calling'
\* resolves to [0.2, station.{code}.{inflection}, 0.2], with no 'and'
\* connector and no 'only' segment; no list of two or more members and no
\* list outside the calling context has an 'only' segment.
LoneStationShape ==
    /\ Returned
    /\ \A k \in PartsOf("stationlist") :
        LET ctx == phrase[Parts[k].node].context
            list == getStationList(ragState, ctx)
            keys == Parts[k].keys
        IN  /\ (Len(list) = 1 /\ ctx # "calling") =>
                /\ keys = <<Silence(200), StationKey(list[1], Inflection(k)),
                            Silence(200)>>
                /\ ~Has(keys, AndKey)
            /\ (Len(list) >= 2 \/ ctx # "calling") => ~Has(keys, OnlyKey)

\* A list of one station outside the calling context was resolved at the
\* end of its sentence.
LoneStationShapeWitness ==
    /\ results # <<>>
    /\ \E k \in PartsOf("stationlist") :
           /\ phrase[Parts[k].node].context = "changes"
           /\ Len(getStationList(ragState, "changes")) = 1
           /\ Inflection(k) = "end"

\* C31: a vox node resolves to the key it carries, once and as it is written,
\* preceded by 0.65 exactly when the node's trimmed text begins with '.' and
\* followed by 0.65 exactly when it ends with '.'; with neither, the key is
\* all the node resolves to.
VoxShape ==
    /\ Returned
    /\ \A k \in PartsOf("vox") :
        LET text == trim(textContent(phrase, Parts[k].node))
            key == Segment(<<phrase[Parts[k].node].key>>)
        IN  /\ Parts[k].keys =
                Pause(startsWith(text, ".")) \o <<key>> \o Pause(endsWith(text, "."))
            /\ (~startsWith(text, ".") /\ ~endsWith(text, "."))
                => Parts[k].keys = <<key>>

\* Two vox nodes were resolved in one phrase: one whose text opens with a
\* terminator, one whose text closes with one.
VoxShapeWitness ==
    /\ results # <<>>
    /\ \E k \in PartsOf("vox") :
           Len(Parts[k].keys) = 2 /\ IsSilence(Parts[k].keys[1])
    /\ \E k \in PartsOf("vox") :
           Len(Parts[k].keys) = 2 /\ IsSilence(Parts[k].keys[2])

\* C32: toVox() leaves the document tree as it is: over any number of calls
\* every node keeps its attributes, its text, its place under its parent and
\* its collapsed flag.
TreeUnchangedByToVox ==
    [][(results' # <<>> /\ results' # results) => phrase' = phrase]_vars

\* toVox() has run twice on a tree that holds a collapsed optional phrase
\* and returned keys.
TreeUnchangedByToVoxWitness ==
    /\ Len(results) = 2
    /\ results[2] # <<>>
    /\ \E i \in 1..Len(phrase) : phrase[i].collapsed

\* C33: whenever the engine is not speaking, between any two of its steps,
\* the pending queue is empty, there is no current buffer node, no stored
\* key sequence, voice or settings, and no pump timer is armed.
IdleEngineIsReset ==
    ~isSpeaking =>
        /\ pendingReqs = <<>>
        /\ currentBufNode = None
        /\ currentIds = None
        /\ currentVoice = "undefined"
        /\ currentSettings = "undefined"
        /\ timers = {}

\* The engine is idle after stop() was called while a segment was playing,
\* with fetches of the dropped requests still in flight.
IdleEngineIsResetWitness ==
    /\ ~isSpeaking
    /\ stoppedBy = "stop"
    /\ played # <<>>
    /\ halted # {}
    /\ detached # {}

\* C34: at most one pump timer is armed at any time, and it is the one whose
\* handle the engine holds, armed by the latest pump() of the announcement
\* that is running: no timer armed for an earlier speak() is left to fire.
OnePumpTimer ==
    /\ Cardinality(timers) <= 1
    /\ timers # {} => (isSpeaking /\ timers = {pumpTimer})

\* speak() has interrupted a running announcement and the new announcement
\* plays, its timer armed.
OnePumpTimerWitness ==
    /\ isSpeaking
    /\ stoppedBy = "speak"
    /\ timers = {pumpTimer}
    /\ played # <<>>
    /\ halted # {}

\* C35: the ended handler of a playing node issues no request, consumes no
\* key, arms no timer and leaves the engine speaking, also when the node
\* was the last to play; the engine goes idle only in a stop() called by
\* pump() or from outside.  (A step in which a sounding node goes away is
\* the handler running unless it is stop(), which records itself, or
\* speak(), which starts the list of played segments afresh.)
EndedOnlyAdvances ==
    [][/\ (/\ \E n \in sounding : n \notin sounding'
           /\ stoppedBy' # "stop"
           /\ played' # <<>>)
          => /\ issued' = issued
             /\ currentIds' = currentIds
             /\ timers' = timers
             /\ pumpTimer' = pumpTimer
             /\ isSpeaking' = isSpeaking
       /\ (isSpeaking /\ ~isSpeaking') => stoppedBy' \in {"pump", "stop"}]_vars

\* The last segment of an announcement has ended: nothing plays, nothing is
\* pending, no key is left, and the engine is speaking still, its timer
\* armed.
EndedOnlyAdvancesWitness ==
    /\ isSpeaking
    /\ currentBufNode = None
    /\ sounding = {}
    /\ pendingReqs = <<>>
    /\ Get(currentIds) = <<>>
    /\ played # <<>>
    /\ played[Len(played)].pos = Len(Get(spoken).ids)
    /\ timers = {pumpTimer}

\* The keys the engine has made requests for since the last speak().
IssuedKeys == [k \in 1..Len(issued) |-> issued[k].path.id]

\* C36: currentIds is the array passed to speak(), and the engine shifts
\* the keys off it: while the engine holds the array, the keys issued
\* followed by the keys left in it are the sequence that was passed; and
\* when the engine has gone idle by its own pump(), every key of the
\* sequence was issued, so the array was empty when the engine let go of it.
KeysConsumedFromArray ==
    /\ currentIds # None => IssuedKeys \o Get(currentIds) = Get(spoken).ids
    /\ (~isSpeaking /\ stoppedBy = "pump") => IssuedKeys = Get(spoken).ids

\* A sequence longer than the request window was consumed over several
\* pump() calls and played, and the engine has gone idle by itself.
KeysConsumedFromArrayWitness ==
    /\ ~isSpeaking
    /\ stoppedBy = "pump"
    /\ Len(issued) > MaxPending
    /\ played # <<>>

\* C37: plain text whose cleaned content has no letter or digit resolves to
\* no segment reference: to [0.65] when it begins with '.', to no key at
\* all when it does not, whether or not it ends with '.'.
WordlessTextShape ==
    /\ Returned
    /\ \A k \in TextParts :
        LET text == clean(textContent(phrase, Parts[k].node))
        IN  ~MatchesWord(text) =>
                /\ \A p \in 1..Len(Parts[k].keys) : IsSilence(Parts[k].keys[p])
                /\ Parts[k].keys =
                       IF startsWith(text, ".") THEN <<Silence(650)>> ELSE <<>>

\* Text without words was resolved that ends with a terminator and does not
\* begin with one, and text without words that begins with a terminator and
\* goes on after it.
WordlessTextShapeWitness ==
    /\ results # <<>>
    /\ \E k \in TextParts :
        LET text == clean(textContent(phrase, Parts[k].node))
        IN  ~MatchesWord(text) /\ endsWith(text, ".") /\ ~startsWith(text, ".")
    /\ \E k \in TextParts :
        LET text == clean(textContent(phrase, Parts[k].node))
        IN  ~MatchesWord(text) /\ startsWith(text, ".") /\ Len(text) > 1

====
